---------------------------- MODULE Spec2Model ----------------------------
(***************************************************************************)
(* Model of films_locations.py: the parser get_locations, the geocoder     *)
(* adapter get_coordinates, the haversine calculate_distance, the ranking  *)
(* sort_by_distance and the selection walk of generate_map.                *)
(*                                                                         *)
(* Two specifications:                                                     *)
(*   SpecParse  get_locations reading a file line by line;                 *)
(*   Spec       generate_map over a mapping get_locations can return.      *)
(***************************************************************************)
EXTENDS Integers, Sequences, FiniteSets, TLC

VARIABLES
    \* ---- get_locations ----
    file,             \* lines of the opened file known so far (header first)
    pos,              \* number of lines consumed from the file
    p_pc,             \* "header" | "lines" | "done" | "raised"
    p_err,            \* exception that left get_locations, "" when none
    p_keys,           \* films_locations.keys(), in insertion order
    films_locations,  \* films_locations: title -> sequence of locations
    \* ---- generate_map ----
    start_location,   \* reference point <<lat, lon>>
    radius,           \* None, or float(radius) in km
    service,          \* what the geocoding service answers for each address
    films,            \* locations.keys(), in insertion order
    parsed,           \* what get_locations returned (kept for reference only)
    locations,        \* locations: title -> sequence of entries
    pc,               \* "start" | "sort" | "outer" | "inner" | "save" | "done" | "raised"
    err,              \* exception that left generate_map, "" when none
    sorted_locations, \* sort_by_distance: title -> ranked entries built so far
    i,                \* index into films of the film being processed
    j,                \* index of the next entry of that film
    number,           \* marker counter
    visited,          \* set of raw location strings already placed
    markers           \* children of the feature group, in order of placement

pvars == <<file, pos, p_pc, p_err, p_keys, films_locations>>
gvars == <<start_location, radius, service, films, parsed, locations, pc, err,
           sorted_locations, i, j, number, visited, markers>>
vars == <<file, pos, p_pc, p_err, p_keys, films_locations,
          start_location, radius, service, films, parsed, locations, pc, err,
          sorted_locations, i, j, number, visited, markers>>

Last(s) == s[Len(s)]

RECURSIVE SeqsUpTo(_, _)
\* all sequences over S of length 0..n
SeqsUpTo(S, n) ==
    IF n = 0 THEN {<<>>}
    ELSE LET shorter == SeqsUpTo(S, n - 1)
         IN  shorter \cup {Append(s, x) : s \in shorter, x \in S}

-----------------------------------------------------------------------------
(***************************************************************************)
(* get_locations                                                           *)
(*                                                                         *)
(* A line is the sequence of its characters, without the terminating       *)
(* newline that readline/readlines keep; NL is put back when the line is   *)
(* decoded.  BAD stands for a byte that is not valid UTF-8.                *)
(***************************************************************************)
TAB == "\t"
SP  == " "
NL  == "\n"
LP  == "("
BAD == "\\xff"

HeaderLines == 14

\* bounds of the parser's input
MaxDataLines == 2
MaxLineLen == 2

TextChars == {"a", LP, TAB}
Whitespace == {SP, NL, TAB}

\* data lines the environment may supply: every short line, lines with an
\* invalid byte, and longer lines with blanks and parenthetical fields
Lines ==
    SeqsUpTo(TextChars, MaxLineLen)
        \cup {<<BAD>>, <<"a", TAB, BAD>>}
        \cup {<<"a", TAB, "a", "a", TAB, LP, "a">>,
              <<LP, TAB, SP, "a", SP, TAB, LP>>,
              <<"a", TAB, LP, TAB, "a", SP>>,
              <<"a", TAB, "a">>,
              <<"a", TAB, LP, "a">>,
              <<SP, "a">>,
              <<SP>>}

\* the fixed-format header that precedes the data
HeaderLine == <<"a", TAB, "a">>
Header == [n \in 1..HeaderLines |-> HeaderLine]

\* line.decode('utf-8'): raises UnicodeDecodeError on an invalid byte
DecodeFails(line) == \E n \in 1..Len(line) : line[n] = BAD
Decode(line) == Append(line, NL)

RECURSIVE SplitFrom(_, _, _)
\* str.split('\t'): cut at every TAB; always at least one field
SplitFrom(s, n, cur) ==
    IF n > Len(s) THEN <<cur>>
    ELSE IF s[n] = TAB THEN <<cur>> \o SplitFrom(s, n + 1, <<>>)
    ELSE SplitFrom(s, n + 1, Append(cur, s[n]))
Split(s) == SplitFrom(s, 1, <<>>)

RECURSIVE LStrip(_)
LStrip(s) == IF s # <<>> /\ Head(s) \in Whitespace THEN LStrip(Tail(s)) ELSE s
RECURSIVE RStrip(_)
RStrip(s) ==
    IF s # <<>> /\ Last(s) \in Whitespace THEN RStrip(SubSeq(s, 1, Len(s) - 1)) ELSE s
\* str.strip()
Strip(s) == RStrip(LStrip(s))

\* str.startswith('(')
StartsWithParen(s) == s # <<>> /\ Head(s) = LP

\* info[-2] exists only when info has two fields
SelectRaises(info) == StartsWithParen(Last(info)) /\ Len(info) < 2
\* variant without the parenthetical rule
SelectLocation_AlwaysLast(info) == Last(info)

\* lines 46-48: location = info[-1], or info[-2] when info[-1] starts with '('
SelectLocation(info) ==
    IF StartsWithParen(Last(info)) THEN info[Len(info) - 1] ELSE Last(info)

\* lines 49-51: create the key on first sight, then append
AddKey(keys, title) ==
    IF \E n \in 1..Len(keys) : keys[n] = title THEN keys ELSE Append(keys, title)
\* variant that replaces the list instead of appending to it
AddLocation_Overwrite(fl, title, location) ==
    [t \in DOMAIN fl \cup {title} |-> IF t = title THEN <<location>> ELSE fl[t]]

AddLocation(fl, title, location) ==
    IF title \in DOMAIN fl
    THEN [fl EXCEPT ![title] = Append(@, location)]
    ELSE [t \in DOMAIN fl \cup {title} |->
            IF t = title THEN <<location>> ELSE fl[t]]

EmptyDict == [t \in {} |-> <<>>]

ParseIdle ==
    /\ file = Header /\ pos = 0 /\ p_pc = "header" /\ p_err = ""
    /\ p_keys = <<>> /\ films_locations = EmptyDict

\* for _ in range(14): f.readline()
SkipHeaderLine ==
    /\ p_pc = "header"
    /\ pos < HeaderLines
    /\ pos' = pos + 1
    /\ UNCHANGED <<file, p_pc, p_err, p_keys, films_locations>>

\* f.readlines() and the start of the loop over the remaining lines
HeaderDone ==
    /\ p_pc = "header"
    /\ pos >= HeaderLines
    /\ p_pc' = "lines"
    /\ UNCHANGED <<file, pos, p_err, p_keys, films_locations>>

\* one iteration of "for line in f.readlines()": lines 44-53
ParseLine ==
    /\ p_pc = "lines"
    /\ \E line \in (IF pos < Len(file) THEN {file[pos + 1]} ELSE Lines) :
         /\ pos < Len(file) \/ Len(file) < HeaderLines + MaxDataLines
         /\ file' = IF pos < Len(file) THEN file ELSE Append(file, line)
         /\ pos' = pos + 1
         /\ IF DecodeFails(line)
            THEN UNCHANGED <<p_pc, p_err, p_keys, films_locations>>
            ELSE LET info == Split(Decode(line))
                 IN  IF SelectRaises(info)
                     THEN /\ p_pc' = "raised"
                          /\ p_err' = "IndexError"
                          /\ UNCHANGED <<p_keys, films_locations>>
                     ELSE /\ p_keys' = AddKey(p_keys, info[1])
                          /\ films_locations' =
                               AddLocation(films_locations, info[1],
                                           Strip(SelectLocation(info)))
                          /\ UNCHANGED <<p_pc, p_err>>

\* the loop runs out of lines: return films_locations
ParseReturn ==
    /\ p_pc = "lines"
    /\ pos = Len(file)
    /\ p_pc' = "done"
    /\ UNCHANGED <<file, pos, p_err, p_keys, films_locations>>


-----------------------------------------------------------------------------
(***************************************************************************)
(* Values of generate_map.  Python values of different types that meet in  *)
(* one variable carry their type: radius is None or a float, an entry of   *)
(* locations[film] is a str before sort_by_distance and a two-element list *)
(* [distance, location] after it.  A raw location string is identified by  *)
(* a number 1..MaxStr: only equality of strings matters to the walk.       *)
(***************************************************************************)
None == [type |-> "NoneType"]
PyInt(x) == [type |-> "int", value |-> x]
Float(x) == [type |-> "float", value |-> x]
Str(s) == [type |-> "str", value |-> s]
List(d, s) == [type |-> "list", value |-> <<d, s>>]

Cap == 10
DefaultRadius == 2000

\* bounds of generate_map's input
MaxFilms == 2
MaxStr == 12
MaxShortLen == 1

Titles == <<"A", "B", "C">>
ShortStrs == 1..2

\* points of the prime meridian, <<lat, lon>> in degrees
Origin == <<0, 0>>
Near == <<11, 0>>
Mid == <<19, 0>>
Far == <<40, 0>>
StartPoint == <<10, 0>>

\* what one request to the geocoding service can come back with
Ok(c) == [kind |-> "ok", lat |-> c[1], lon |-> c[2]]
NoResult == [kind |-> "empty"]       \* JSON "[]"
BadJson == [kind |-> "badjson"]      \* body that is not JSON
NoLatLon == [kind |-> "nolatlon"]    \* first result is an object without lat/lon
NetFail == [kind |-> "netfail"]      \* the request itself fails
Responses == {NoResult, BadJson, NoLatLon, NetFail,
              Ok(Origin), Ok(Near), Ok(Mid), Ok(Far)}

\* the service answers the same address the same way during one run
Services ==
    {[s \in 1..MaxStr |->
        IF s = 1 THEN r1 ELSE IF s = 2 THEN r2 ELSE IF s = 3 THEN Ok(Mid) ELSE Ok(Near)]
     : r1 \in Responses, r2 \in {Ok(Near), Ok(Far)}}

Interval(a, b) == [n \in 1..(b - a + 1) |-> a + n - 1]

\* location lists of one film: every short list, a string listed twice, and
\* long runs of distinct strings
LocLists ==
    (SeqsUpTo(ShortStrs, MaxShortLen) \ {<<>>})
        \cup {<<s, s>> : s \in ShortStrs}
        \cup {Interval(a, MaxStr) : a \in ShortStrs}

\* mappings get_locations can return: distinct titles, non-empty lists of str
Dicts ==
    UNION {[{Titles[n] : n \in 1..k} -> LocLists] : k \in 0..MaxFilms}
KeysOf(d) == [n \in 1..Cardinality(DOMAIN d) |-> Titles[n]]

Abs(x) == IF x < 0 THEN -x ELSE x

(***************************************************************************)
(* calculate_distance, in units of 10 m.  For two points of one meridian   *)
(* dlon = 0, so a = sin^2(dlat/2), c = 2*atan2(sqrt(a), sqrt(1-a)) = |dlat|*)
(* in radians and d = 6371 km * |dlat| * pi/180; pi is taken as 355/113,   *)
(* and 100 * 355 / (113 * 180) = 355 * 5 / 1017.                           *)
(* Every point of this model lies on the prime meridian.                   *)
(***************************************************************************)
\* kilometres in the unit of calculate_distance
KmToUnits(km) == km * 100
calculate_distance(pair) ==
    LET lat1 == pair[1][1]
        lat2 == pair[2][1]
    IN  (6371 * Abs(lat2 - lat1) * 355 * 5) \div 1017

Returned(v) == [exc |-> "", value |-> v]
Raised(e) == [exc |-> e]

\* get_coordinates: lines 64-70
get_coordinates(address, svc) ==
    IF address.type # "str" THEN Raised("TypeError")          \* urllib.parse.quote
    ELSE LET response == svc[address.value]
         IN  CASE response.kind = "netfail" -> Raised("ConnectionError")
               [] response.kind = "badjson" -> Returned(<<0, 0>>)   \* JSONDecodeError
               [] response.kind = "empty" -> Returned(<<0, 0>>)     \* IndexError
               [] response.kind = "nolatlon" -> Raised("KeyError")
               [] OTHER -> Returned(<<response.lat, response.lon>>)

\* variants of the placement condition with one conjunct missing
Qualifies_NoDedup(coordinates, start, r, location, seen) ==
    /\ coordinates # <<0, 0>>
    /\ calculate_distance(<<start, coordinates>>) <= KmToUnits(r.value)
Qualifies_NoSentinel(coordinates, start, r, location, seen) ==
    /\ calculate_distance(<<start, coordinates>>) <= KmToUnits(r.value)
    /\ location.value \notin seen
Qualifies_NoRadius(coordinates, start, r, location, seen) ==
    /\ coordinates # <<0, 0>>
    /\ location.value \notin seen

\* line 115-116, once get_coordinates has returned and radius is a float
Qualifies(coordinates, start, r, location, seen) ==
    /\ coordinates # <<0, 0>>
    /\ calculate_distance(<<start, coordinates>>) <= KmToUnits(r.value)
    /\ location.value \notin seen

RECURSIVE InsertByKey_TiesFirst(_, _)
\* variant that puts x in front of the entries with an equal key
InsertByKey_TiesFirst(s, x) ==
    IF s = <<>> THEN <<x>>
    ELSE IF Head(s).value[1] < x.value[1]
         THEN <<Head(s)>> \o InsertByKey_TiesFirst(Tail(s), x)
         ELSE <<x>> \o s

RECURSIVE InsertByKey(_, _)
\* put x behind every entry whose key is not greater than x's
InsertByKey(s, x) ==
    IF s = <<>> THEN <<x>>
    ELSE IF Head(s).value[1] <= x.value[1]
         THEN <<Head(s)>> \o InsertByKey(Tail(s), x)
         ELSE <<x>> \o s
RECURSIVE sorted(_)
\* sorted(entries, key=lambda x: x[0]): ascending by distance, stable
sorted(s) ==
    IF s = <<>> THEN <<>>
    ELSE InsertByKey(sorted(SubSeq(s, 1, Len(s) - 1)), Last(s))

RECURSIVE FirstRaise(_, _)
\* the exception of the first lookup of a film that raises, "" when none does
FirstRaise(locs, svc) ==
    IF locs = <<>> THEN ""
    ELSE LET c == get_coordinates(Head(locs), svc)
         IN  IF c.exc # "" THEN c.exc ELSE FirstRaise(Tail(locs), svc)

RECURSIVE RankFilm(_, _, _)
\* lines 83-86: [distance, location] for every location that is not [0, 0]
RankFilm(locs, svc, start) ==
    IF locs = <<>> THEN <<>>
    ELSE LET c == get_coordinates(Head(locs), svc).value
             rest == RankFilm(Tail(locs), svc, start)
         IN  IF c # <<0, 0>>
             THEN <<List(calculate_distance(<<start, c>>), Head(locs).value)>> \o rest
             ELSE rest

GenIdle ==
    /\ start_location = StartPoint /\ radius = None /\ service = [s \in {} |-> NoResult]
    /\ films = <<>> /\ parsed = EmptyDict /\ locations = EmptyDict
    /\ pc = "idle" /\ err = ""
    /\ sorted_locations = EmptyDict /\ i = 0 /\ j = 0
    /\ number = 0 /\ visited = {} /\ markers = <<>>

\* lines 99-105: the call, get_locations' result, number = 0, visited = set()
GenInit ==
    /\ start_location = StartPoint
    /\ radius \in {None, PyInt(DefaultRadius)}
    /\ service \in Services
    /\ \E d \in Dicts :
         /\ films = KeysOf(d)
         /\ parsed = d
         /\ locations = [t \in DOMAIN d |-> [n \in 1..Len(d[t]) |-> Str(d[t][n])]]
    /\ pc = "start" /\ err = ""
    /\ sorted_locations = EmptyDict /\ i = 0 /\ j = 0
    /\ number = 0 /\ visited = {} /\ markers = <<>>

walk == <<i, j, number, visited, markers>>
input == <<start_location, service, films, parsed>>

\* line 106-107: radius is None, enter sort_by_distance
StartRanked ==
    /\ pc = "start" /\ radius = None
    /\ pc' = "sort" /\ i' = 1
    /\ UNCHANGED <<input, radius, locations, err, sorted_locations, j, number,
                   visited, markers>>

\* line 108-109: radius = float(radius)
StartRadius ==
    /\ pc = "start" /\ radius # None
    /\ radius' = Float(radius.value)
    /\ pc' = "outer" /\ i' = 1
    /\ UNCHANGED <<input, locations, err, sorted_locations, j, number, visited,
                   markers>>

\* lines 81-87: one film of sort_by_distance
SortFilm ==
    /\ pc = "sort" /\ i <= Len(films)
    /\ LET film == films[i]
           e == FirstRaise(locations[film], service)
       IN  IF e # ""
           THEN /\ pc' = "raised" /\ err' = e
                /\ UNCHANGED <<i, sorted_locations>>
           ELSE /\ sorted_locations' =
                     [t \in DOMAIN sorted_locations \cup {film} |->
                        IF t = film
                        THEN sorted(RankFilm(locations[film], service, start_location))
                        ELSE sorted_locations[t]]
                /\ i' = i + 1
                /\ UNCHANGED <<pc, err>>
    /\ UNCHANGED <<input, radius, locations, j, number, visited, markers>>


\* line 88 and 107: sort_by_distance returns, locations is rebound to its result
SortReturn ==
    /\ pc = "sort" /\ i > Len(films)
    /\ locations' = sorted_locations
    /\ pc' = "outer" /\ i' = 1
    /\ UNCHANGED <<input, radius, err, sorted_locations, j, number, visited,
                   markers>>

\* line 110-113: the next film is taken up
EnterFilm ==
    /\ pc = "outer" /\ i <= Len(films)
    /\ number < Cap
    /\ pc' = "inner" /\ j' = 1
    /\ UNCHANGED <<input, radius, locations, err, sorted_locations, i, number,
                   visited, markers>>

\* line 111-112: if number >= 10: break
Break ==
    /\ pc = "outer" /\ i <= Len(films)
    /\ number >= Cap
    /\ pc' = "save"
    /\ UNCHANGED <<input, radius, locations, err, sorted_locations, walk>>

\* line 110: no film is left
FilmsExhausted ==
    /\ pc = "outer" /\ i > Len(films)
    /\ pc' = "save"
    /\ UNCHANGED <<input, radius, locations, err, sorted_locations, walk>>

\* lines 113-121: one location of the film being processed
VisitLocation ==
    /\ pc = "inner" /\ j <= Len(locations[films[i]])
    /\ LET element == films[i]
           location == locations[element][j]
           c == get_coordinates(location, service)
       IN  IF c.exc # ""
           THEN /\ pc' = "raised" /\ err' = c.exc
                /\ UNCHANGED walk
           ELSE IF c.value # <<0, 0>> /\ radius = None
           THEN /\ pc' = "raised" /\ err' = "TypeError"    \* float <= None
                /\ UNCHANGED walk
           ELSE /\ IF Qualifies(c.value, start_location, radius, location, visited)
                   THEN /\ visited' = visited \cup {location.value}
                        /\ markers' = Append(markers,
                                        [location |-> c.value, popup |-> element,
                                         raw |-> location.value])
                        /\ number' = number + 1
                   ELSE UNCHANGED <<number, visited, markers>>
                /\ j' = j + 1
                /\ UNCHANGED <<pc, err, i>>
    /\ UNCHANGED <<input, radius, locations, sorted_locations>>

\* line 113: the film's entries are exhausted
FilmDone ==
    /\ pc = "inner" /\ j > Len(locations[films[i]])
    /\ pc' = "outer" /\ i' = i + 1
    /\ UNCHANGED <<input, radius, locations, err, sorted_locations, j, number,
                   visited, markers>>

\* lines 122-124: map.add_child(fg); map.save("Map1.html"); return 1
Save ==
    /\ pc = "save"
    /\ pc' = "done"
    /\ UNCHANGED <<input, radius, locations, err, sorted_locations, walk>>

-----------------------------------------------------------------------------
Init == ParseIdle /\ GenInit

Next ==
    \/ StartRanked /\ UNCHANGED pvars
    \/ StartRadius /\ UNCHANGED pvars
    \/ SortFilm /\ UNCHANGED pvars
    \/ SortReturn /\ UNCHANGED pvars
    \/ EnterFilm /\ UNCHANGED pvars
    \/ Break /\ UNCHANGED pvars
    \/ FilmsExhausted /\ UNCHANGED pvars
    \/ VisitLocation /\ UNCHANGED pvars
    \/ FilmDone /\ UNCHANGED pvars
    \/ Save /\ UNCHANGED pvars

Spec == Init /\ [][Next]_vars

InitParse == ParseIdle /\ GenIdle

NextParse ==
    \/ SkipHeaderLine /\ UNCHANGED gvars
    \/ HeaderDone /\ UNCHANGED gvars
    \/ ParseLine /\ UNCHANGED gvars
    \/ ParseReturn /\ UNCHANGED gvars

SpecParse == InitParse /\ [][NextParse]_vars

-----------------------------------------------------------------------------
(***************************************************************************)
(* Properties of generate_map (specification Spec)                         *)
(***************************************************************************)

\* what the service's answer for raw string s means to the caller
LookupRaises(s) == service[s].kind \in {"netfail", "nolatlon"}
LookupIsSentinel(s) ==
    \/ service[s].kind \in {"empty", "badjson"}
    \/ service[s].kind = "ok" /\ service[s].lat = 0 /\ service[s].lon = 0
LookupPoint(s) == <<service[s].lat, service[s].lon>>
DistanceOf(s) == calculate_distance(<<start_location, LookupPoint(s)>>)
InRadiusMode == radius # None

\* C1: in every reachable state the number of markers placed is at most the
\* cap, also while the film being processed still has qualifying locations.
C1_MarkersAtMostCap == Len(markers) <= Cap /\ number <= Cap

\* C2: in ranked mode, once sort_by_distance has ranked at least one
\* successfully geocoded location, the selection walk does not raise.
C2_RankedWalkCompletes ==
    (radius = None /\ \E t \in DOMAIN sorted_locations : sorted_locations[t] # <<>>)
        => ~(pc = "raised" /\ err = "TypeError")

\* C4: no outcome of a single lookup (empty result, malformed JSON, result
\* without lat/lon, network failure) aborts the run.
C4_LookupFailureAbsorbed ==
    ~(pc = "raised" /\ err \in {"KeyError", "ConnectionError"})

\* the first film, in processing order, that lists raw string s
FirstFilmListing(s) ==
    films[CHOOSE n \in 1..Len(films) :
            /\ \E k \in 1..Len(parsed[films[n]]) : parsed[films[n]][k] = s
            /\ \A m \in 1..(n - 1) :
                 \A k \in 1..Len(parsed[films[m]]) : parsed[films[m]][k] # s]

\* C5: no raw location string is placed as a marker more than once, and its
\* single marker carries the title of the first film processed that lists it.
C5_DedupByRawText ==
    /\ \A a, b \in 1..Len(markers) : markers[a].raw = markers[b].raw => a = b
    /\ \A a \in 1..Len(markers) : markers[a].popup = FirstFilmListing(markers[a].raw)

\* a string shared by two films has been met again in the second film
C5_Witness ==
    /\ pc = "inner" /\ i = 2 /\ j > 1
    /\ locations[films[2]][j - 1].value \in visited
    /\ \E k \in 1..Len(parsed[films[1]]) :
         parsed[films[1]][k] = locations[films[2]][j - 1].value
    /\ \E a \in 1..Len(markers) :
         markers[a].raw = locations[films[2]][j - 1].value /\ markers[a].popup = films[1]

AllSentinel(t) == \A k \in 1..Len(parsed[t]) : LookupIsSentinel(parsed[t][k])

\* C6: no marker lies at (0,0); a film all of whose locations geocode to the
\* sentinel has no marker and an empty ranked list.
C6_SentinelNeverPlaced ==
    /\ \A a \in 1..Len(markers) : markers[a].location # <<0, 0>>
    /\ \A t \in DOMAIN parsed :
         AllSentinel(t) =>
            /\ \A a \in 1..Len(markers) : markers[a].popup # t
            /\ t \in DOMAIN sorted_locations => sorted_locations[t] = <<>>

\* a radius-mode run has finished with markers, past a film whose
\* locations resolve to the point (0,0), which lies within the radius
C6_Witness ==
    /\ pc = "done" /\ InRadiusMode /\ markers # <<>>
    /\ \E t \in DOMAIN parsed :
         /\ AllSentinel(t)
         /\ \E k \in 1..Len(parsed[t]) :
              /\ service[parsed[t][k]] = Ok(Origin)
              /\ DistanceOf(parsed[t][k]) <= KmToUnits(radius.value)

\* the raw strings of a film's locations whose lookup is not the sentinel
Geocoded(t) == SelectSeq(parsed[t], LAMBDA s : ~LookupIsSentinel(s))
RawAt(seq, d) == SelectSeq(seq, LAMBDA s : DistanceOf(s) = d)
RankedRaw(t) == [n \in 1..Len(sorted_locations[t]) |-> sorted_locations[t][n].value[2]]

\* C7: a film's ranked list holds exactly its geocoded locations, one entry
\* per occurrence, ascending by distance, equal distances in original order.
C7_RankedListSortedStable ==
    \A t \in DOMAIN sorted_locations :
        LET r == sorted_locations[t]
        IN  /\ Len(r) = Len(Geocoded(t))
            /\ \A n \in 1..Len(r) : r[n].value[1] = DistanceOf(r[n].value[2])
            /\ \A a, b \in 1..Len(r) : a < b => r[a].value[1] <= r[b].value[1]
            /\ \A n \in 1..Len(r) :
                 RawAt(RankedRaw(t), r[n].value[1]) = RawAt(Geocoded(t), r[n].value[1])

\* a ranked list that dropped a failed lookup, reordered the rest and
\* contains two different strings at the same distance
C7_Witness ==
    \E t \in DOMAIN sorted_locations :
        LET r == sorted_locations[t]
        IN  /\ Len(r) < Len(parsed[t])
            /\ RankedRaw(t) # Geocoded(t)
            /\ \E a, b \in 1..Len(r) :
                 a < b /\ r[a].value[1] = r[b].value[1] /\ r[a].value[2] # r[b].value[2]

\* the entry the walk is about to visit
AtVisit == pc = "inner" /\ j <= Len(locations[films[i]])
Current == locations[films[i]][j].value
NotPlaceable(s) ==
    \/ LookupRaises(s)
    \/ LookupIsSentinel(s)
    \/ DistanceOf(s) > KmToUnits(radius.value)
    \/ s \in visited

\* C10: in radius mode the counter equals the number of markers and the
\* size of the dedup set; visiting a location that failed to geocode, lies
\* outside the radius or was already placed changes none of the three, and
\* the counter only ever changes by one placement.
C10_CounterTracksPlacements ==
    /\ [](InRadiusMode =>
            number = Len(markers) /\ number = Cardinality(visited))
    /\ [][(InRadiusMode /\ AtVisit /\ NotPlaceable(Current))
            => UNCHANGED <<number, visited, markers>>]_vars
    /\ [][(InRadiusMode /\ number' # number)
            => /\ AtVisit /\ ~NotPlaceable(Current)
               /\ number' = number + 1
               /\ visited' = visited \cup {Current}
               /\ Len(markers') = Len(markers) + 1]_vars

\* the walk has placed a marker and has passed a location without placing it
C10_Witness ==
    /\ InRadiusMode /\ pc = "inner" /\ i = 1
    /\ number > 0 /\ number < j - 1
    /\ \E k \in 1..(j - 1) : service[parsed[films[1]][k]] = Ok(Far)

-----------------------------------------------------------------------------
(***************************************************************************)
(* Properties of get_locations (specification SpecParse)                   *)
(***************************************************************************)

RECURSIVE JoinTab(_)
JoinTab(fields) ==
    IF Len(fields) = 1 THEN fields[1]
    ELSE fields[1] \o <<TAB>> \o JoinTab(Tail(fields))

\* fields are the tab-separated fields of text
IsFieldsOf(fields, text) ==
    /\ Len(fields) >= 1
    /\ \A n \in 1..Len(fields) : \A k \in 1..Len(fields[n]) : fields[n][k] # TAB
    /\ JoinTab(fields) = text

\* y is x without its leading and trailing whitespace
IsTrimmed(x, y) ==
    /\ \E a \in 1..(Len(x) + 1) : \E b \in 0..Len(x) :
         /\ y = SubSeq(x, a, b)
         /\ \A n \in 1..(a - 1) : x[n] \in Whitespace
         /\ \A n \in (b + 1)..Len(x) : x[n] \in Whitespace
    /\ y # <<>> => y[1] \notin Whitespace /\ Last(y) \notin Whitespace

\* the line the loop handled last, once it is past the header
Handled == pos > HeaderLines /\ p_pc \in {"lines", "done", "raised"}

\* C3: the parser never raises on a data line with fewer than 2
\* tab-separated fields.
C3_ShortLineTolerated ==
    p_pc = "raised" => Len(Split(Decode(file[pos]))) >= 2

TitleOf(line) == Split(Decode(line))[1]
LocationOf(line) == Strip(SelectLocation(Split(Decode(line))))
\* the decodable data lines handled so far, in line order
Records ==
    SelectSeq(SubSeq(file, HeaderLines + 1, pos), LAMBDA l : ~DecodeFails(l))
FirstLineOf(title) ==
    CHOOSE n \in 1..Len(Records) :
        /\ TitleOf(Records[n]) = title
        /\ \A m \in 1..(n - 1) : TitleOf(Records[m]) # title
LinesOf(title) == SelectSeq(Records, LAMBDA l : TitleOf(l) = title)

=============================================================================
